---------------------------- MODULE Spec2Model ----------------------------
(***************************************************************************)
(* A model of the NTRU key encapsulation (ntru.rs), the PB3 mask command   *)
(* (pb3/cmd/mask.rs), the commit of a wrapped message                      *)
(* (command/wrap/commit.rs, message/wrapped.rs) and the transport trait    *)
(* (transport/mod.rs).                                                     *)
(*                                                                         *)
(* The ring is scaled down: polynomials have N = 2 coefficients modulo      *)
(* Q = 29 in Z_Q[x]/(x^N + 1), each coefficient is serialised in           *)
(* TritsPerCoeff = 4 trits, and the sponge has a rate and a capacity of 3  *)
(* trits.  The polynomial engine, the sponge, the PRNG and the trit        *)
(* buffers are not part of the sources at hand; they are modelled from     *)
(* their description in the specification (sections 4.A to 4.D).           *)
(***************************************************************************)
EXTENDS Integers, Sequences, FiniteSets, TLC

(***************************************************************************)
(* Sizes.                                                                  *)
(***************************************************************************)
\* poly: the number of coefficients of a polynomial.
N == 2
\* poly: the prime modulus, Q = 1 (mod 2N) and Q > 12N + 2.
Q == 29
\* poly: a primitive 2N-th root of unity modulo Q (PSI^N = -1).
PSI == 12
\* poly: the trits that serialise one coefficient (3^4 = 81 > Q).
TritsPerCoeff == 4
\* spongos: rate and capacity of the sponge, in trits.
RATE == 3
CAPACITY == 3
\* prng: the number of PRP rounds of the toy permutation.
ROUNDS == 12

\* ntru.rs: the sizes of the keys and of the capsule, in trits.
SK_SIZE == N
PK_SIZE == N * TritsPerCoeff
EKEY_SIZE == N * TritsPerCoeff
KEY_SIZE == 1
PKID_SIZE == 3
\* ntru.rs, gen_r: the width of the retry counter i (81 in the source).
COUNTER_SIZE == 1

(***************************************************************************)
(* Trits and trit buffers (section 4.A).                                   *)
(***************************************************************************)
Trit == {-1, 0, 1}

\* The balanced representative of x modulo the odd number m.
mods(x, m) == ((x + (m - 1) \div 2) % m) - (m - 1) \div 2

RECURSIVE TritSeqs(_)
\* Every trit string of length n.
TritSeqs(n) ==
    IF n = 0 THEN {<<>>}
    ELSE {Append(s, t) : s \in TritSeqs(n - 1), t \in Trit}

\* Trits::zero(n).
Zero(n) == [j \in 1..n |-> 0]

\* take(n) and drop(n) of a slice.
take(s, n) == SubSeq(s, 1, n)
drop(s, n) == SubSeq(s, n + 1, Len(s))

\* The buffer buf with the window starting after offset `at` overwritten by x.
Overwrite(buf, at, x) ==
    SubSeq(buf, 1, at) \o x \o SubSeq(buf, at + Len(x) + 1, Len(buf))

RECURSIVE inc(_)
\* inc of a little-endian balanced ternary counter: [ok, v]; ok is false
\* exactly when every trit was +1.
inc(v) ==
    IF v = <<>> THEN [ok |-> FALSE, v |-> <<>>]
    ELSE IF Head(v) < 1 THEN [ok |-> TRUE, v |-> <<Head(v) + 1>> \o Tail(v)]
    ELSE LET rest == inc(Tail(v))
         IN [ok |-> rest.ok, v |-> <<-1>> \o rest.v]

RECURSIVE Decode(_)
\* The integer a little-endian balanced ternary string stands for.
Decode(s) == IF s = <<>> THEN 0 ELSE Head(s) + 3 * Decode(Tail(s))

RECURSIVE Encode(_, _)
\* The n little-endian balanced trits of the integer x.
Encode(x, n) ==
    IF n = 0 THEN <<>>
    ELSE <<mods(x, 3)>> \o Encode((x - mods(x, 3)) \div 3, n - 1)

\* put3 and get3: a tryte in -13..13 and its 3-trit window.
Trint3 == -13..13
put3(d) == Encode(d, 3)
get3(s) == Decode(s)

(***************************************************************************)
(* The polynomial engine (section 4.B).  A polynomial is the sequence of   *)
(* its N coefficients, kept as balanced residues modulo Q.                 *)
(***************************************************************************)
modq(x) == mods(x, Q)

RECURSIVE Pow(_, _)
Pow(b, e) == IF e = 0 THEN 1 ELSE modq(b * Pow(b, e - 1))

\* The roots of x^N + 1: the odd powers of PSI, and their inverses.
Roots == [k \in 1..N |-> Pow(PSI, 2 * k - 1)]
RootsInv == [k \in 1..N |-> Pow(Roots[k], Q - 2)]
NInv == Pow(N, Q - 2)
InvTable == [x \in -((Q - 1) \div 2)..((Q - 1) \div 2) |-> Pow(x, Q - 2)]

RECURSIVE SumTo(_, _)
\* f[1] + ... + f[n].
SumTo(f, n) == IF n = 0 THEN 0 ELSE f[n] + SumTo(f, n - 1)

\* Poly::new().
PolyNew == [j \in 1..N |-> 0]

\* small_from_trits: the coefficients are the trits of s, 0 past |s|.
small_from_trits(s) == [j \in 1..N |-> IF j <= Len(s) THEN s[j] ELSE 0]

small_mul3(p) == [j \in 1..N |-> modq(3 * p[j])]

small3_add1(p) == [j \in 1..N |-> IF j = 1 THEN modq(p[j] + 1) ELSE p[j]]

\* ntt: the evaluations at the N roots of x^N + 1.
ntt(p) ==
    [k \in 1..N |->
        modq(SumTo([j \in 1..N |-> p[j] * Pow(Roots[k], j - 1)], N))]

\* intt: the inverse transform.
intt(P) ==
    [j \in 1..N |->
        modq(NInv * SumTo([k \in 1..N |-> P[k] * Pow(RootsInv[k], j - 1)], N))]

has_inv(P) == \A k \in 1..N : P[k] # 0

inv(P) == [k \in 1..N |-> InvTable[P[k]]]

conv(P, R) == [k \in 1..N |-> modq(P[k] * R[k])]

\* The j-th coefficient's trits in a serialised polynomial.
CoeffTrits(s, j) == SubSeq(s, (j - 1) * TritsPerCoeff + 1, j * TritsPerCoeff)

\* from_trits: [ok, p]; ok is false when a decoded coefficient is out of
\* the range (-Q/2, Q/2].
from_trits(s) ==
    LET c == [j \in 1..N |-> Decode(CoeffTrits(s, j))]
    IN IF \A j \in 1..N : c[j] >= -((Q - 1) \div 2) /\ c[j] <= (Q - 1) \div 2
       THEN [ok |-> TRUE, p |-> c]
       ELSE [ok |-> FALSE, p |-> PolyNew]

RECURSIVE Flatten(_)
Flatten(ss) == IF ss = <<>> THEN <<>> ELSE Head(ss) \o Flatten(Tail(ss))

\* to_trits: the fixed-width serialisation.
to_trits(p) == Flatten([j \in 1..N |-> Encode(p[j], TritsPerCoeff)])

\* round_to_trits: each coefficient to its balanced residue modulo 3.
round_to_trits(p) == [j \in 1..SK_SIZE |-> mods(p[j], 3)]

add_small(p, s) ==
    [j \in 1..N |-> IF j <= Len(s) THEN modq(p[j] + s[j]) ELSE p[j]]

sub_small(p, s) ==
    [j \in 1..N |-> IF j <= Len(s) THEN modq(p[j] - s[j]) ELSE p[j]]

(***************************************************************************)
(* The sponge (section 4.C): RATE + CAPACITY trits and a cursor into the   *)
(* outer part.                                                             *)
(***************************************************************************)
\* F(x) with x evaluated once, before F uses it: an operator's argument is
\* otherwise evaluated where the operator uses it.
Strict(F(_), x) == CHOOSE r \in {F(v) : v \in {x}} : TRUE

\* One round of the PRP: a nonlinear feedback shift of the whole state.
Round(st) == Append(Tail(st), mods(st[1] + st[2] * st[3] + st[5] + 1, 3))

RECURSIVE Permute(_, _)
Permute(st, n) ==
    Strict(LAMBDA v : IF n = 0 THEN v ELSE Permute(Round(v), n - 1), st)

\* The PRP: ROUNDS rounds.
transform(st) == Permute(st, ROUNDS)

\* Spongos::init().
SpongosInit == [s |-> Zero(RATE + CAPACITY), pos |-> 0]

\* commit: a permutation boundary; the cursor returns to the block start.
commit(sp) ==
    Strict(LAMBDA v : IF v.pos # 0 THEN [s |-> transform(v.s), pos |-> 0]
                      ELSE v, sp)

\* The cursor moves by one trit; a full block is committed.
update1(sp) ==
    Strict(LAMBDA v : IF v.pos + 1 = RATE
                      THEN [s |-> transform(v.s), pos |-> 0]
                      ELSE [v EXCEPT !.pos = v.pos + 1], sp)

RECURSIVE absorb(_, _)
absorb(sp, x) ==
    Strict(LAMBDA v :
             IF x = <<>> THEN v
             ELSE absorb(update1([v EXCEPT
                                    !.s[v.pos + 1] = mods(@ + Head(x), 3)]),
                         Tail(x)),
           sp)

RECURSIVE squeeze(_, _)
\* squeeze n trits: [sp, y].
squeeze(sp, n) ==
    Strict(LAMBDA v :
             IF n = 0 THEN [sp |-> v, y |-> <<>>]
             ELSE Strict(LAMBDA rest :
                           [sp |-> rest.sp, y |-> <<v.s[v.pos + 1]>> \o rest.y],
                         squeeze(update1(v), n - 1)),
           sp)

RECURSIVE encr(_, _)
\* encr: [sp, y]; y = x + keystream, the outer part takes the ciphertext.
encr(sp, x) ==
    Strict(LAMBDA v :
             IF x = <<>> THEN [sp |-> v, y |-> <<>>]
             ELSE Strict(LAMBDA c :
                    Strict(LAMBDA rest : [sp |-> rest.sp, y |-> <<c>> \o rest.y],
                           encr(update1([v EXCEPT !.s[v.pos + 1] = c]), Tail(x))),
                    mods(Head(x) + v.s[v.pos + 1], 3)),
           sp)

RECURSIVE decr(_, _)
\* decr: [sp, x]; x = y - keystream, the outer part takes the ciphertext.
decr(sp, y) ==
    Strict(LAMBDA v :
             IF y = <<>> THEN [sp |-> v, x |-> <<>>]
             ELSE Strict(LAMBDA rest :
                           [sp |-> rest.sp,
                            x |-> <<mods(Head(y) - v.s[v.pos + 1], 3)>> \o rest.x],
                         decr(update1([v EXCEPT !.s[v.pos + 1] = Head(y)]),
                              Tail(y))),
           sp)

(***************************************************************************)
(* The PRNG (section 4.D).                                                 *)
(***************************************************************************)
RECURSIVE AbsorbNonces(_, _)
AbsorbNonces(sp, nonces) ==
    Strict(LAMBDA v :
             IF nonces = <<>> THEN v
             ELSE AbsorbNonces(commit(absorb(v, Head(nonces))), Tail(nonces)),
           sp)

\* gens: n trits from the key and the ordered nonces.
gens(key, nonces, n) ==
    squeeze(AbsorbNonces(commit(absorb(SpongosInit, key)), nonces), n).y

(***************************************************************************)
(* ntru.rs: key generation, encapsulation and decapsulation.               *)
(***************************************************************************)
\* gen_step: [ok, f, g, h] with f = NTT(1+3f), g = NTT(3g) and, when both
\* are invertible, h = NTT(3g/(1+3f)); h is left alone otherwise.
gen_step(f, g, h) ==
    LET f1 == ntt(small3_add1(small_mul3(f)))
        g1 == ntt(small_mul3(g))
    IN IF has_inv(f1) /\ has_inv(g1)
       THEN [ok |-> TRUE, f |-> f1, g |-> g1, h |-> conv(inv(f1), g1)]
       ELSE [ok |-> FALSE, f |-> f1, g |-> g1, h |-> h]

\* The randomness of the candidate for counter value i.
gen_rand(key, nonce, i) == gens(key, <<nonce, i>>, 2 * SK_SIZE)

\* gen_try with the public key serialised from h in NTT form (the
\* g.intt() of gen_r left out).
gen_try_no_intt(key, nonce, i, f, sk, h, pk) ==
    Strict(LAMBDA r :
      Strict(LAMBDA st :
               IF st.ok
               THEN [ok |-> TRUE, f |-> st.f, h |-> st.h,
                     sk |-> take(r, SK_SIZE), pk |-> to_trits(st.h)]
               ELSE [ok |-> FALSE, f |-> st.f, h |-> st.h, sk |-> sk, pk |-> pk],
             gen_step(small_from_trits(take(r, SK_SIZE)),
                      small_from_trits(drop(r, SK_SIZE)), h)),
      gen_rand(key, nonce, i))

\* gen_try with sk and pk written before the candidate is tested.
gen_try_writes_rejected(key, nonce, i, f, sk, h, pk) ==
    Strict(LAMBDA r :
      Strict(LAMBDA st :
               [ok |-> st.ok, f |-> st.f, h |-> st.h,
                sk |-> take(r, SK_SIZE), pk |-> to_trits(intt(st.h))],
             gen_step(small_from_trits(take(r, SK_SIZE)),
                      small_from_trits(drop(r, SK_SIZE)), h)),
      gen_rand(key, nonce, i))

\* The body of the loop of gen_r for counter value i:
\* [ok, f, h, sk, pk], sk and pk written only for an accepted candidate.
gen_try(key, nonce, i, f, sk, h, pk) ==
    Strict(LAMBDA r :
      Strict(LAMBDA st :
               IF st.ok
               THEN [ok |-> TRUE, f |-> st.f, h |-> st.h,
                     sk |-> take(r, SK_SIZE), pk |-> to_trits(intt(st.h))]
               ELSE [ok |-> FALSE, f |-> st.f, h |-> st.h, sk |-> sk, pk |-> pk],
             gen_step(small_from_trits(take(r, SK_SIZE)),
                      small_from_trits(drop(r, SK_SIZE)), h)),
      gen_rand(key, nonce, i))

\* One sponge operation of a trace: its name, the trits it read or wrote
\* and the sponge it left.
Checkpoint(op, data, sp) == [op |-> op, data |-> data, sp |-> sp]

\* encr_r with the commit between the absorb and the encr left out.
encr_r_no_commit(s, h, y, k) ==
    LET t0 == intt(conv(ntt(small_from_trits(take(y, SK_SIZE))), h))
        y1 == to_trits(t0)
        s1 == absorb(s, y1)
        e  == encr(s1, k)
        y2 == Overwrite(y1, 0, e.y)
        q  == squeeze(e.sp, SK_SIZE - KEY_SIZE)
        y3 == Overwrite(y2, KEY_SIZE, q.y)
        t1 == add_small(t0, take(y3, SK_SIZE))
    IN [s |-> q.sp, y |-> to_trits(t1),
        trace |-> <<Checkpoint("absorb", y1, s1), Checkpoint("encr", e.y, e.sp),
                    Checkpoint("squeeze", q.y, q.sp)>>]

\* encr_r: y holds the randomness r in its first SK_SIZE trits, which the
\* code reuses as the buffer of the encrypted key and the tag.
\* [s, y, trace].
encr_r(s, h, y, k) ==
    LET t0 == intt(conv(ntt(small_from_trits(take(y, SK_SIZE))), h))
        y1 == to_trits(t0)
        s1 == absorb(s, y1)
        s2 == commit(s1)
        e  == encr(s2, k)
        y2 == Overwrite(y1, 0, e.y)
        q  == squeeze(e.sp, SK_SIZE - KEY_SIZE)
        y3 == Overwrite(y2, KEY_SIZE, q.y)
        t1 == add_small(t0, take(y3, SK_SIZE))
    IN [s |-> q.sp, y |-> to_trits(t1),
        trace |-> <<Checkpoint("absorb", y1, s1), Checkpoint("commit", <<>>, s2),
                    Checkpoint("encr", e.y, e.sp),
                    Checkpoint("squeeze", q.y, q.sp)>>]

\* pk_from_trits without the test of has_inv.
pk_from_trits_no_has_inv(pk) ==
    LET t == from_trits(pk)
    IN IF t.ok
       THEN [some |-> TRUE, h |-> ntt(t.p)]
       ELSE [some |-> FALSE, h |-> PolyNew]

\* pk_from_trits: [some, h].
pk_from_trits(pk) ==
    LET t == from_trits(pk)
    IN IF t.ok /\ has_inv(ntt(t.p))
       THEN [some |-> TRUE, h |-> ntt(t.p)]
       ELSE [some |-> FALSE, h |-> PolyNew]

\* encr_pk: the randomness is generated into the first SK_SIZE trits of y.
encr_pk(s, key, pk, h, n, k, y) ==
    encr_r(s, h, Overwrite(y, 0, gens(key, <<pk, k, n>>, SK_SIZE)), k)

\* decr_r that absorbs the capsule as received, not the capsule with the
\* rounded part taken off.
decr_r_absorbs_capsule(s, f, y, k) ==
    LET t == from_trits(y)
    IN IF ~t.ok
       THEN [ok |-> FALSE, k |-> k, s |-> s, stage |-> "parse", trace |-> <<>>]
       ELSE LET r  == intt(conv(ntt(t.p), f))
                kt == round_to_trits(r)
                rh == to_trits(t.p)
                s1 == absorb(s, rh)
                s2 == commit(s1)
                d  == decr(s2, take(kt, KEY_SIZE))
                q  == squeeze(d.sp, SK_SIZE - KEY_SIZE)
                ok == q.y = drop(kt, KEY_SIZE)
            IN [ok |-> ok, k |-> d.x, s |-> q.sp,
                stage |-> IF ok THEN "ok" ELSE "tag",
                trace |-> <<Checkpoint("absorb", rh, s1),
                            Checkpoint("commit", <<>>, s2),
                            Checkpoint("decr", take(kt, KEY_SIZE), d.sp),
                            Checkpoint("squeeze", q.y, q.sp)>>]

\* decr_r: [ok, k, s, stage, trace]; a capsule that does not parse leaves
\* k and s as they were.
decr_r(s, f, y, k) ==
    LET t == from_trits(y)
    IN IF ~t.ok
       THEN [ok |-> FALSE, k |-> k, s |-> s, stage |-> "parse", trace |-> <<>>]
       ELSE LET r  == intt(conv(ntt(t.p), f))
                kt == round_to_trits(r)
                rh == to_trits(sub_small(t.p, kt))
                s1 == absorb(s, rh)
                s2 == commit(s1)
                d  == decr(s2, take(kt, KEY_SIZE))
                q  == squeeze(d.sp, SK_SIZE - KEY_SIZE)
                ok == q.y = drop(kt, KEY_SIZE)
            IN [ok |-> ok, k |-> d.x, s |-> q.sp,
                stage |-> IF ok THEN "ok" ELSE "tag",
                trace |-> <<Checkpoint("absorb", rh, s1),
                            Checkpoint("commit", <<>>, s2),
                            Checkpoint("decr", take(kt, KEY_SIZE), d.sp),
                            Checkpoint("squeeze", q.y, q.sp)>>]

\* decr_sk: f is recomputed from the secret trits.
decr_sk(s, sk, y, k) ==
    decr_r(s, ntt(small3_add1(small_mul3(small_from_trits(sk)))), y, k)

(***************************************************************************)
(* pb3/cmd/mask.rs: the mask command.  A slice is its buffer buf and the   *)
(* number pos of trits it has advanced over; Len(buf) - pos trits remain.  *)
(***************************************************************************)
\* wrap3 with the window encrypted before the tryte is put into it.
wrap3_encr_before_put3(sp, buf, pos, d) ==
    LET e == encr(sp, SubSeq(buf, pos + 1, pos + 3))
    IN [s |-> e.sp, buf |-> Overwrite(Overwrite(buf, pos, e.y), pos, put3(d)),
        pos |-> pos + 3]

\* WrapMask::wrap3: advance by 3, put the tryte, encr the window in place.
wrap3(sp, buf, pos, d) ==
    LET b0 == Overwrite(buf, pos, put3(d))
        e  == encr(sp, SubSeq(b0, pos + 1, pos + 3))
    IN [s |-> e.sp, buf |-> Overwrite(b0, pos, e.y), pos |-> pos + 3]

\* WrapMask::wrapn: encr t into the next |t| trits.
wrapn(sp, buf, pos, t) ==
    LET e == encr(sp, t)
    IN [s |-> e.sp, buf |-> Overwrite(buf, pos, e.y), pos |-> pos + Len(t)]

\* unwrap3 that asks for more than 3 remaining trits.
unwrap3_guard_strict(sp, buf, pos) ==
    IF 3 < Len(buf) - pos
    THEN LET d == decr(sp, SubSeq(buf, pos + 1, pos + 3))
         IN [res |-> "Ok", val |-> get3(d.x), s |-> d.sp, pos |-> pos + 3]
    ELSE [res |-> "Eof", val |-> 0, s |-> sp, pos |-> pos]

\* WrapMask::unwrap3: [res, val, s, pos]; val is the tryte of an Ok result.
unwrap3(sp, buf, pos) ==
    IF 3 <= Len(buf) - pos
    THEN LET d == decr(sp, SubSeq(buf, pos + 1, pos + 3))
         IN [res |-> "Ok", val |-> get3(d.x), s |-> d.sp, pos |-> pos + 3]
    ELSE [res |-> "Eof", val |-> 0, s |-> sp, pos |-> pos]

\* WrapMask::unwrapn into the destination t: [res, val, s, pos]; val is
\* what t holds afterwards.
unwrapn(sp, buf, pos, t) ==
    IF Len(t) <= Len(buf) - pos
    THEN LET d == decr(sp, SubSeq(buf, pos + 1, pos + Len(t)))
         IN [res |-> "Ok", val |-> d.x, s |-> d.sp, pos |-> pos + Len(t)]
    ELSE [res |-> "Eof", val |-> t, s |-> sp, pos |-> pos]

(***************************************************************************)
(* command/wrap/commit.rs and message/wrapped.rs.                          *)
(***************************************************************************)
\* Commit for Context: the sponge of the context is committed.
Context_commit(sp) == commit(sp)

\* HasLink::rel: the relative part of a link.
rel(l) == l.rel

\* LinkStore::update: the sponge and the info are kept under r, or the
\* store refuses and stays as it was.
LinkStore_update(st, r, sp, info, ok) ==
    IF ok THEN [st EXCEPT ![r] = [some |-> TRUE, spongos |-> sp, info |-> info]]
    ELSE st

\* WrappedMessage::commit without the commit of the sponge.
WrappedMessage_commit_no_commit(wm, st, info, ok, ops) ==
    [spongos |-> wm.spongos,
     ops |-> ops,
     upd |-> [called |-> TRUE, rel |-> rel(wm.message.link),
              spongos |-> wm.spongos, info |-> info, ok |-> ok, ops |-> ops],
     store |-> LinkStore_update(st, rel(wm.message.link), wm.spongos, info, ok),
     ret |-> IF ok THEN [res |-> "Ok", message |-> wm.message]
             ELSE [res |-> "Err", message |-> <<>>]]

\* WrappedMessage::commit on the message wm with the store st; ok is
\* whether store.update succeeds and ops the operations applied to the
\* sponge so far.  [spongos, ops, upd, store, ret].
WrappedMessage_commit(wm, st, info, ok, ops) ==
    Strict(LAMBDA sp :
             [spongos |-> sp,
              ops |-> Append(ops, "commit"),
              upd |-> [called |-> TRUE, rel |-> rel(wm.message.link),
                       spongos |-> sp, info |-> info, ok |-> ok,
                       ops |-> Append(ops, "commit")],
              store |-> LinkStore_update(st, rel(wm.message.link), sp, info, ok),
              ret |-> IF ok THEN [res |-> "Ok", message |-> wm.message]
                      ELSE [res |-> "Err", message |-> <<>>]],
           commit(wm.spongos))

(***************************************************************************)
(* transport/mod.rs: the Transport trait and its implementation for        *)
(* Rc<RefCell<Tsp>>.                                                       *)
(*                                                                         *)
(* A Result is [ok, val, err]: Ok carries a sequence (empty for Ok(()),    *)
(* one message for Ok(msg), the messages for Ok(msgs)), Err a text.  The   *)
(* two required methods belong to the implementor Tsp; it is taken to keep *)
(* the messages it was sent per link, and either method may fail.  Every   *)
(* method yields its Result, the messages the implementor keeps            *)
(* afterwards, and the calls of required methods it made, in order, each    *)
(* with the Result the required method returned.                           *)
(***************************************************************************)
Ok(v) == [ok |-> TRUE, val |-> v, err |-> ""]
Err(e) == [ok |-> FALSE, val |-> <<>>, err |-> e]

\* SendOptions::default() and RecvOptions::default().
DefaultOptions == "default"

\* Vec::pop: the last element, if there is one, and what remains.
pop(msgs) ==
    IF Len(msgs) = 0 THEN [some |-> FALSE, msg |-> <<>>, rest |-> msgs]
    ELSE [some |-> TRUE, msg |-> <<msgs[Len(msgs)]>>,
          rest |-> SubSeq(msgs, 1, Len(msgs) - 1)]

\* The required method send_message_with_options of the implementor.
Tsp_send_message_with_options(b, msg, opt, fail) ==
    LET r == IF fail THEN Err("send failed") ELSE Ok(<<>>)
    IN  [res |-> r,
         bucket |-> IF fail THEN b
                    ELSE [b EXCEPT ![msg.link] = Append(@, msg)],
         calls |-> <<[method |-> "send_message_with_options",
                      link |-> msg.link, opt |-> opt, res |-> r]>>]

\* The required method recv_messages_with_options of the implementor.
Tsp_recv_messages_with_options(b, l, opt, fail) ==
    LET r == IF fail THEN Err("recv failed") ELSE Ok(b[l])
    IN  [res |-> r,
         bucket |-> b,
         calls |-> <<[method |-> "recv_messages_with_options",
                      link |-> l, opt |-> opt, res |-> r]>>]

\* Transport::send_message.
Tsp_send_message(b, msg, fail) ==
    Tsp_send_message_with_options(b, msg, DefaultOptions, fail)

\* recv_message_with_options that returns the last message found, however
\* many there are.
recv_message_with_options_takes_last(b, l, opt, fail) ==
    LET u == Tsp_recv_messages_with_options(b, l, opt, fail)
        p == pop(IF u.res.ok THEN u.res.val ELSE <<>>)
    IN  [res |-> IF ~u.res.ok THEN u.res
                 ELSE IF p.some THEN Ok(p.msg)
                 ELSE Err("Message not found."),
         bucket |-> u.bucket,
         calls |-> u.calls]

\* Transport::recv_message_with_options.
Tsp_recv_message_with_options(b, l, opt, fail) ==
    LET u == Tsp_recv_messages_with_options(b, l, opt, fail)
        p == pop(IF u.res.ok THEN u.res.val ELSE <<>>)
    IN  [res |-> IF ~u.res.ok THEN u.res
                 ELSE IF p.some
                      THEN IF Len(p.rest) = 0 THEN Ok(p.msg)
                           ELSE Err("More than one message found.")
                 ELSE Err("Message not found."),
         bucket |-> u.bucket,
         calls |-> u.calls]

\* Transport::recv_messages.
Tsp_recv_messages(b, l, fail) ==
    Tsp_recv_messages_with_options(b, l, DefaultOptions, fail)

\* Transport::recv_message.
Tsp_recv_message(b, l, fail) ==
    Tsp_recv_message_with_options(b, l, DefaultOptions, fail)

\* RefCell::try_borrow_mut: the flag of the cell is 0 when nothing borrows
\* it, -1 while it is borrowed mutably and the number of shared borrows
\* otherwise.
try_borrow_mut(flag) == flag = 0

\* What every method of Rc<RefCell<Tsp>> returns when try_borrow_mut fails.
AlreadyBorrowed(b) ==
    [res |-> Err("Transport already borrowed"), bucket |-> b, calls |-> <<>>]

\* The methods of Rc<RefCell<Tsp>>.
Rc_send_message_with_options(flag, b, msg, opt, fail) ==
    IF try_borrow_mut(flag) THEN Tsp_send_message_with_options(b, msg, opt, fail)
    ELSE AlreadyBorrowed(b)

Rc_send_message(flag, b, msg, fail) ==
    IF try_borrow_mut(flag) THEN Tsp_send_message(b, msg, fail)
    ELSE AlreadyBorrowed(b)

Rc_recv_messages_with_options(flag, b, l, opt, fail) ==
    IF try_borrow_mut(flag) THEN Tsp_recv_messages_with_options(b, l, opt, fail)
    ELSE AlreadyBorrowed(b)

Rc_recv_message_with_options(flag, b, l, opt, fail) ==
    IF try_borrow_mut(flag) THEN Tsp_recv_message_with_options(b, l, opt, fail)
    ELSE AlreadyBorrowed(b)

Rc_recv_messages(flag, b, l, fail) ==
    IF try_borrow_mut(flag) THEN Tsp_recv_messages(b, l, fail)
    ELSE AlreadyBorrowed(b)

Rc_recv_message(flag, b, l, fail) ==
    IF try_borrow_mut(flag) THEN Tsp_recv_message(b, l, fail)
    ELSE AlreadyBorrowed(b)

(***************************************************************************)
(* The state of the key encapsulation.                                     *)
(*   pc        "idle": no key yet; "gen": inside the loop of gen_r;         *)
(*             "failed": gen_r returned false; "both": a key pair from gen;*)
(*             "pkonly": a parsed public key; "none": from_trits or        *)
(*             from_slice returned None; "invalid": a public key object    *)
(*             that validate refused.                                      *)
(*   prng      the key of the PRNG.                                        *)
(*   nonce, i  the nonce of gen and the retry counter of gen_r.            *)
(*   attempts  the counter values gen_r has tried, in order.               *)
(*   sk, pk    the PrivateKey {sk, f} and the PublicKey {pk, h}.           *)
(*   enc, dec  the last encapsulation and the last decapsulation.          *)
(*   out       what the last call returned.                                *)
(***************************************************************************)
VARIABLES pc, prng, nonce, i, attempts, sk, pk, enc, dec, out

kemVars == <<pc, prng, nonce, i, attempts, sk, pk, enc, dec, out>>

(***************************************************************************)
(* The state of a message being wrapped and unwrapped.                     *)
(*   mpc        "wrap": the writer is masking into its buffer;             *)
(*              "committed": the writer's context has committed;           *)
(*              "unwrap": a reader works on the produced buffer;           *)
(*              "done": WrappedMessage::commit has consumed the message.   *)
(*   s0m        the sponge both sides start from.                          *)
(*   wbuf, wpos the writer's buffer and its cursor (trits advanced over).  *)
(*   ws, wlog   the writer's sponge and what it has wrapped, in order.     *)
(*   wops       the operations applied to the writer's sponge, in order.   *)
(*   rbuf, rpos the reader's buffer and its cursor.                        *)
(*   rs, rlog   the reader's sponge and its unwrap calls, in order.        *)
(*   link       the link of the message.                                   *)
(*   store      the link store: relative link -> sponge and info.          *)
(*   upd        the call of store.update made by WrappedMessage::commit.   *)
(*   ret        what WrappedMessage::commit returned.                      *)
(***************************************************************************)
VARIABLES mpc, s0m, wbuf, wpos, ws, wlog, wops, rbuf, rpos, rs, rlog,
          link, store, upd, ret

maskVars ==
    <<mpc, s0m, wbuf, wpos, ws, wlog, wops, rbuf, rpos, rs, rlog,
      link, store, upd, ret>>

(***************************************************************************)
(* The state of a transport.                                               *)
(*   bucket  the messages the implementor keeps, per link.                 *)
(*   flag    the borrow flag of the RefCell around the implementor.        *)
(*   tcall   the last call of a method of the trait: the method, whether   *)
(*           it went to the implementor ("tsp") or to the Rc<RefCell<Tsp>> *)
(*           ("rc"), its link and options, the flag it met, what it        *)
(*           returned and the calls of required methods it made.           *)
(***************************************************************************)
VARIABLES bucket, flag, tcall

tspVars == <<bucket, flag, tcall>>

vars == <<kemVars, maskVars, tspVars>>

\* The length of the key of the PRNG.
PRNG_KEY_SIZE == 3

\* The longest nonce of gen and of encr.
MaxNonceLen == 1

\* The keys of the PRNG, the nonces and the sponges a caller brings.
PrngKeys == {<<1, 1, 0>>, <<1, 0, 1>>}
Nonces == UNION {TritSeqs(n) : n \in 0..MaxNonceLen}
EncNonces == {<<>>, <<1>>}
CallerSponges == {absorb(SpongosInit, <<-1, 1, 0, 1, 1>>)}

\* The capsules that differ from y in exactly one trit.
Tampered(y) ==
    UNION {{[y EXCEPT ![j] = t] : t \in Trit \ {y[j]}} : j \in 1..Len(y)}

\* The capsules that differ from y in one trit, raised by one modulo 3.
Flipped(y) == {[y EXCEPT ![j] = mods(y[j] + 1, 3)] : j \in 1..Len(y)}

\* The capsules handed to decr: the one just produced and its tampered
\* copies, or a well-formed and a malformed one before any encapsulation.
Capsules ==
    IF enc.done THEN {enc.y} \cup Flipped(enc.y)
    ELSE {Zero(EKEY_SIZE), [j \in 1..EKEY_SIZE |-> 1]}

\* The public key inputs of from_trits, from_slice and validate: trit
\* strings of PK_SIZE trits, one too few and one too many.
PkCoeffs == {0, 2, 5, -14, 15}
PkInputs ==
    {Encode(a, TritsPerCoeff) \o Encode(b, TritsPerCoeff) \o x :
        a \in PkCoeffs, b \in PkCoeffs, x \in {<<>>, <<0>>}}
    \cup {Zero(PK_SIZE - 1)}

\* The most wrap calls of a writer and unwrap calls of a reader.
MaxOps == 2

\* The size of the writer's buffer, in trits.
BufSize == 7

\* The sponges a message starts from, the trytes and the trit strings that
\* are wrapped, the links and the infos.
WrapSponges ==
    {SpongosInit, absorb(SpongosInit, <<1>>),
     commit(absorb(SpongosInit, <<1, -1>>))}
Trytes == {-13, 0, 5}
TritStrings == {<<>>, <<-1, 0>>, <<1, 1, -1, 0>>}
Links == {[base |-> "a", rel |-> "r1"], [base |-> "b", rel |-> "r2"]}
Rels == {rel(l) : l \in Links}
Infos == {"i1"}

NoEntry == [some |-> FALSE, spongos |-> SpongosInit, info |-> "none"]
NoUpdate ==
    [called |-> FALSE, rel |-> "none", spongos |-> SpongosInit,
     info |-> "none", ok |-> FALSE, ops |-> <<>>]
NoReturn == [res |-> "none", message |-> <<>>]

\* A message about to be wrapped from the sponge s0 under the link l.
MaskStart(s0, l) ==
    /\ mpc = "wrap"
    /\ s0m = s0
    /\ wbuf = Zero(BufSize)
    /\ wpos = 0
    /\ ws = s0
    /\ wlog = <<>>
    /\ wops = <<>>
    /\ rbuf = <<>>
    /\ rpos = 0
    /\ rs = s0
    /\ rlog = <<>>
    /\ link = l
    /\ store = [r \in Rels |-> NoEntry]
    /\ upd = NoUpdate
    /\ ret = NoReturn

\* No message is being wrapped.
MaskIdle == MaskStart(SpongosInit, [base |-> "a", rel |-> "r1"])

\* The most messages the implementor keeps under one link.
MaxMsgs == 2
\* The most shared borrows of the cell at a time.
MaxShared == 1
TLinks == {"l1", "l2"}
Bodies == {0, 1}
BinaryMessages == [link : TLinks, body : Bodies]
Options == {DefaultOptions, "custom"}
Vias == {"tsp", "rc"}

NoCall ==
    [op |-> "none", via |-> "tsp", link |-> "l1", opt |-> DefaultOptions,
     flag |-> 0, res |-> Ok(<<>>), calls |-> <<>>]
CallRecord(op, via, l, opt, r) ==
    [op |-> op, via |-> via, link |-> l, opt |-> opt, flag |-> flag,
     res |-> r.res, calls |-> r.calls]

\* An implementor that keeps no message, in a cell nothing borrows.
TspIdle ==
    /\ bucket = [l \in TLinks |-> <<>>]
    /\ flag = 0
    /\ tcall = NoCall

NoKeyPriv == [sk |-> Zero(SK_SIZE), f |-> PolyNew]
NoKeyPub == [pk |-> Zero(PK_SIZE), h |-> PolyNew]
NoEnc ==
    [done |-> FALSE, s0 |-> SpongosInit, n |-> <<>>, k |-> Zero(KEY_SIZE),
     y |-> Zero(EKEY_SIZE), s |-> SpongosInit, trace |-> <<>>]
NoDec ==
    [done |-> FALSE, s0 |-> SpongosInit, y |-> Zero(EKEY_SIZE),
     k0 |-> Zero(KEY_SIZE), ok |-> FALSE, k |-> Zero(KEY_SIZE),
     s |-> SpongosInit, stage |-> "none", trace |-> <<>>]
Returned(op, val) == [op |-> op, val |-> val]

Init ==
    /\ pc = "idle"
    /\ prng \in PrngKeys
    /\ nonce = <<>>
    /\ i = Zero(COUNTER_SIZE)
    /\ attempts = <<>>
    /\ sk = NoKeyPriv
    /\ pk = NoKeyPub
    /\ enc = NoEnc
    /\ dec = NoDec
    /\ out = Returned("none", FALSE)
    /\ MaskIdle
    /\ TspIdle

\* gen: the key objects are created zeroed and gen_r starts its loop.
GenBegin(n) ==
    /\ pc = "idle"
    /\ pc' = "gen"
    /\ nonce' = n
    /\ i' = Zero(COUNTER_SIZE)
    /\ attempts' = <<>>
    /\ sk' = NoKeyPriv
    /\ pk' = NoKeyPub
    /\ out' = Returned("none", FALSE)
    /\ UNCHANGED <<prng, enc, dec, maskVars, tspVars>>

\* One turn of the loop of gen_r: a candidate is accepted and gen returns
\* the pair, or it is rejected and the counter is incremented; gen_r
\* returns false when the counter overflows.
GenIter ==
    /\ pc = "gen"
    /\ LET g == gen_try(prng, nonce, i, sk.f, sk.sk, pk.h, pk.pk)
           c == inc(i)
       IN /\ attempts' = Append(attempts, i)
          /\ sk' = [sk |-> g.sk, f |-> g.f]
          /\ pk' = [pk |-> g.pk, h |-> g.h]
          /\ IF g.ok
             THEN /\ pc' = "both"
                  /\ i' = i
                  /\ out' = Returned("gen", TRUE)
             ELSE /\ pc' = IF c.ok THEN "gen" ELSE "failed"
                  /\ i' = c.v
                  /\ out' = IF c.ok THEN out ELSE Returned("gen", FALSE)
    /\ UNCHANGED <<prng, nonce, enc, dec, maskVars, tspVars>>

\* PublicKey::from_trits and PublicKey::from_slice: [some, key].
PublicKey_from_trits(inp) ==
    IF Len(inp) = PK_SIZE
    THEN LET r == pk_from_trits(inp)
         IN IF r.some THEN [some |-> TRUE, key |-> [pk |-> inp, h |-> r.h]]
            ELSE [some |-> FALSE, key |-> NoKeyPub]
    ELSE [some |-> FALSE, key |-> NoKeyPub]

PublicKey_from_slice(inp) ==
    IF Len(inp) = PK_SIZE
    THEN LET r == pk_from_trits(inp)
         IN IF r.some THEN [some |-> TRUE, key |-> [pk |-> inp, h |-> r.h]]
            ELSE [some |-> FALSE, key |-> NoKeyPub]
    ELSE [some |-> FALSE, key |-> NoKeyPub]

\* PublicKey::validate on the key object key: [ok, key].
PublicKey_validate(key) ==
    LET r == pk_from_trits(key.pk)
    IN IF r.some THEN [ok |-> TRUE, key |-> [key EXCEPT !.h = r.h]]
       ELSE [ok |-> FALSE, key |-> key]

Parsed(op, inp) ==
    LET r == IF op = "from_trits" THEN PublicKey_from_trits(inp)
             ELSE PublicKey_from_slice(inp)
    IN /\ pc = "idle"
       /\ pc' = IF r.some THEN "pkonly" ELSE "none"
       /\ pk' = IF r.some THEN r.key ELSE pk
       /\ out' = [op |-> op, val |-> r.some, inp |-> inp]
       /\ UNCHANGED <<prng, nonce, i, attempts, sk, enc, dec, maskVars, tspVars>>

FromTrits(inp) == Parsed("from_trits", inp)

FromSlice(inp) == Parsed("from_slice", inp)

\* validate on a key object whose trits are inp and whose h is not yet
\* computed.
Validate(inp) ==
    /\ pc = "idle"
    /\ Len(inp) = PK_SIZE
    /\ LET r == PublicKey_validate([pk |-> inp, h |-> PolyNew])
       IN /\ pc' = IF r.ok THEN "pkonly" ELSE "invalid"
          /\ pk' = r.key
          /\ out' = [op |-> "validate", val |-> r.ok, inp |-> inp]
    /\ UNCHANGED <<prng, nonce, i, attempts, sk, enc, dec, maskVars, tspVars>>

HasPk == pc \in {"both", "pkonly"}
HasSk == pc = "both"

\* PublicKey::id and PublicKey::trits.
PublicKey_id(key) == take(key.pk, PKID_SIZE)
PublicKey_trits(key) == key.pk

Id ==
    /\ HasPk
    /\ out' = Returned("id", PublicKey_id(pk))
    /\ UNCHANGED <<pc, prng, nonce, i, attempts, sk, pk, enc, dec, maskVars, tspVars>>

TritsOf ==
    /\ HasPk
    /\ out' = Returned("trits", PublicKey_trits(pk))
    /\ UNCHANGED <<pc, prng, nonce, i, attempts, sk, pk, enc, dec, maskVars, tspVars>>

\* PublicKey::encr_with_s: the capsule goes into a zeroed buffer.
EncrWithS(s, n, k) ==
    /\ HasPk
    /\ ~enc.done
    /\ LET r == encr_pk(s, prng, pk.pk, pk.h, n, k, Zero(EKEY_SIZE))
       IN enc' = [done |-> TRUE, s0 |-> s, n |-> n, k |-> k, y |-> r.y,
                  s |-> r.s, trace |-> r.trace]
    /\ out' = Returned("encr", TRUE)
    /\ UNCHANGED <<pc, prng, nonce, i, attempts, sk, pk, dec, maskVars, tspVars>>

\* PublicKey::encr: a new sponge.
Encr(n, k) == EncrWithS(SpongosInit, n, k)

\* PrivateKey::decr_with_s into the key buffer k0.
DecrWithS(s, y, k0) ==
    /\ HasSk
    /\ ~dec.done
    /\ LET r == decr_sk(s, sk.sk, y, k0)
       IN /\ dec' = [done |-> TRUE, s0 |-> s, y |-> y, k0 |-> k0, ok |-> r.ok,
                     k |-> r.k, s |-> r.s, stage |-> r.stage,
                     trace |-> r.trace]
          /\ out' = Returned("decr", r.ok)
    /\ UNCHANGED <<pc, prng, nonce, i, attempts, sk, pk, enc, maskVars, tspVars>>

\* PrivateKey::decr: a new sponge.
Decr(y, k0) == DecrWithS(SpongosInit, y, k0)

KeyBuffers == {Zero(KEY_SIZE), [j \in 1..KEY_SIZE |-> 1]}

\* The operations on keys, encapsulation and decapsulation.
NextKem ==
    \/ \E n \in Nonces : GenBegin(n)
    \/ GenIter
    \/ \E inp \in PkInputs : FromTrits(inp)
    \/ \E inp \in PkInputs : FromSlice(inp)
    \/ \E inp \in PkInputs : Validate(inp)
    \/ Id
    \/ TritsOf
    \/ \E n \in EncNonces, k \in TritSeqs(KEY_SIZE) : Encr(n, k)
    \/ \E s \in CallerSponges, n \in EncNonces, k \in TritSeqs(KEY_SIZE) :
            EncrWithS(s, n, k)
    \/ \E y \in Capsules, k0 \in KeyBuffers : Decr(y, k0)
    \/ \E s \in CallerSponges, y \in Capsules, k0 \in KeyBuffers :
            DecrWithS(s, y, k0)

Next == NextKem

Spec == Init /\ [][Next]_vars

\* Key generation alone, for every key of the PRNG.
InitGen ==
    /\ pc = "idle"
    /\ prng \in TritSeqs(PRNG_KEY_SIZE)
    /\ nonce = <<>>
    /\ i = Zero(COUNTER_SIZE)
    /\ attempts = <<>>
    /\ sk = NoKeyPriv
    /\ pk = NoKeyPub
    /\ enc = NoEnc
    /\ dec = NoDec
    /\ out = Returned("none", FALSE)
    /\ MaskIdle
    /\ TspIdle

NextGen ==
    \/ \E n \in Nonces : GenBegin(n)
    \/ GenIter

SpecGen == InitGen /\ [][NextGen]_vars

\* gen_r is a loop of one thread: a turn that can be taken is taken.
FairSpecGen == SpecGen /\ WF_vars(GenIter)

\* Public key parsing alone, for every trit string of PK_SIZE trits and
\* some shorter and longer ones.
AllPkInputs ==
    TritSeqs(PK_SIZE)
    \cup {Zero(0), Zero(PK_SIZE - 1), Zero(PK_SIZE + 1),
          Encode(1, TritsPerCoeff) \o Encode(1, TritsPerCoeff) \o <<1>>,
          SubSeq(Encode(1, TritsPerCoeff) \o Encode(1, TritsPerCoeff),
                 1, PK_SIZE - 1)}

NextParse ==
    \/ \E inp \in AllPkInputs : FromTrits(inp)
    \/ \E inp \in AllPkInputs : FromSlice(inp)

SpecParse == Init /\ [][NextParse]_vars

(***************************************************************************)
(* Wrapping and unwrapping a message.                                      *)
(***************************************************************************)
\* The writer wraps the tryte d.
Wrap3(d) ==
    /\ mpc = "wrap"
    /\ Len(wlog) < MaxOps
    /\ wpos + 3 <= Len(wbuf)
    /\ LET r == wrap3(ws, wbuf, wpos, d)
       IN /\ ws' = r.s
          /\ wbuf' = r.buf
          /\ wpos' = r.pos
          /\ wlog' = Append(wlog, [op |-> "wrap3", size |-> 3, val |-> d,
                                    pos |-> r.pos, s |-> r.s])
    /\ wops' = Append(wops, "encr")
    /\ UNCHANGED <<mpc, s0m, rbuf, rpos, rs, rlog, link, store, upd, ret>>
    /\ UNCHANGED <<kemVars, tspVars>>

\* The writer wraps the trit string t.
WrapN(t) ==
    /\ mpc = "wrap"
    /\ Len(wlog) < MaxOps
    /\ wpos + Len(t) <= Len(wbuf)
    /\ LET r == wrapn(ws, wbuf, wpos, t)
       IN /\ ws' = r.s
          /\ wbuf' = r.buf
          /\ wpos' = r.pos
          /\ wlog' = Append(wlog, [op |-> "wrapn", size |-> Len(t), val |-> t,
                                    pos |-> r.pos, s |-> r.s])
    /\ wops' = Append(wops, "encr")
    /\ UNCHANGED <<mpc, s0m, rbuf, rpos, rs, rlog, link, store, upd, ret>>
    /\ UNCHANGED <<kemVars, tspVars>>

\* The commit command of the writer's context.
ContextCommit ==
    /\ mpc = "wrap"
    /\ mpc' = "committed"
    /\ ws' = Context_commit(ws)
    /\ wops' = Append(wops, "commit")
    /\ UNCHANGED <<s0m, wbuf, wpos, wlog, rbuf, rpos, rs, rlog, link, store,
                   upd, ret>>
    /\ UNCHANGED <<kemVars, tspVars>>

\* WrappedMessage::commit: the message and its sponge are consumed.
WrappedCommit(info, ok) ==
    /\ mpc \in {"wrap", "committed"}
    /\ mpc' = "done"
    /\ LET wm == [message |-> [link |-> link, body |-> SubSeq(wbuf, 1, wpos)],
                  spongos |-> ws]
           r  == WrappedMessage_commit(wm, store, info, ok, wops)
       IN /\ ws' = r.spongos
          /\ wops' = r.ops
          /\ upd' = r.upd
          /\ store' = r.store
          /\ ret' = r.ret
    /\ UNCHANGED <<s0m, wbuf, wpos, wlog, rbuf, rpos, rs, rlog, link>>
    /\ UNCHANGED <<kemVars, tspVars>>

\* A reader takes the produced buffer and a copy of the initial sponge.
StartRead ==
    /\ mpc = "wrap"
    /\ mpc' = "unwrap"
    /\ rbuf' = SubSeq(wbuf, 1, wpos)
    /\ rpos' = 0
    /\ rs' = s0m
    /\ rlog' = <<>>
    /\ UNCHANGED <<s0m, wbuf, wpos, ws, wlog, wops, link, store, upd, ret>>
    /\ UNCHANGED <<kemVars, tspVars>>

\* The reader unwraps a tryte.
Unwrap3 ==
    /\ mpc = "unwrap"
    /\ Len(rlog) < MaxOps
    /\ LET r == unwrap3(rs, rbuf, rpos)
       IN /\ rs' = r.s
          /\ rpos' = r.pos
          /\ rlog' = Append(rlog, [op |-> "unwrap3", size |-> 3,
                                    res |-> r.res, val |-> r.val,
                                    from |-> rpos, pos |-> r.pos, s |-> r.s])
    /\ UNCHANGED <<mpc, s0m, wbuf, wpos, ws, wlog, wops, rbuf, link, store,
                   upd, ret>>
    /\ UNCHANGED <<kemVars, tspVars>>

\* The reader unwraps n trits into a zeroed destination.
UnwrapN(n) ==
    /\ mpc = "unwrap"
    /\ Len(rlog) < MaxOps
    /\ LET r == unwrapn(rs, rbuf, rpos, Zero(n))
       IN /\ rs' = r.s
          /\ rpos' = r.pos
          /\ rlog' = Append(rlog, [op |-> "unwrapn", size |-> n,
                                    res |-> r.res, val |-> r.val,
                                    from |-> rpos, pos |-> r.pos, s |-> r.s])
    /\ UNCHANGED <<mpc, s0m, wbuf, wpos, ws, wlog, wops, rbuf, link, store,
                   upd, ret>>
    /\ UNCHANGED <<kemVars, tspVars>>

\* A message from any of the sponges, under any of the links, and no key.
InitWrap ==
    /\ pc = "idle"
    /\ prng = Zero(PRNG_KEY_SIZE)
    /\ nonce = <<>>
    /\ i = Zero(COUNTER_SIZE)
    /\ attempts = <<>>
    /\ sk = NoKeyPriv
    /\ pk = NoKeyPub
    /\ enc = NoEnc
    /\ dec = NoDec
    /\ out = Returned("none", FALSE)
    /\ \E s0 \in WrapSponges, l \in Links : MaskStart(s0, l)
    /\ TspIdle

NextWrap ==
    \/ \E d \in Trytes : Wrap3(d)
    \/ \E t \in TritStrings : WrapN(t)
    \/ ContextCommit
    \/ \E info \in Infos, ok \in BOOLEAN : WrappedCommit(info, ok)
    \/ StartRead
    \/ Unwrap3
    \/ \E n \in {Len(t) : t \in TritStrings} : UnwrapN(n)

SpecWrap == InitWrap /\ [][NextWrap]_vars

(***************************************************************************)
(* Sending and receiving through a transport.  A call on the implementor   *)
(* itself needs exclusive access: the caller owns it (flag = 0) or holds   *)
(* the mutable borrow of the cell (flag = -1).  A call on the              *)
(* Rc<RefCell<Tsp>> can come at any time.  The borrow a method of the      *)
(* Rc<RefCell<Tsp>> takes ends when the method returns.                    *)
(***************************************************************************)
CanCall(via) == via = "tsp" => flag <= 0

SendMessageWithOptions(via, msg, opt, fail) ==
    LET r == IF via = "rc"
             THEN Rc_send_message_with_options(flag, bucket, msg, opt, fail)
             ELSE Tsp_send_message_with_options(bucket, msg, opt, fail)
    IN  /\ CanCall(via)
        /\ Len(bucket[msg.link]) < MaxMsgs
        /\ bucket' = r.bucket
        /\ tcall' = CallRecord("send_message_with_options", via, msg.link, opt, r)
        /\ UNCHANGED <<flag, kemVars, maskVars>>

SendMessage(via, msg, fail) ==
    LET r == IF via = "rc" THEN Rc_send_message(flag, bucket, msg, fail)
             ELSE Tsp_send_message(bucket, msg, fail)
    IN  /\ CanCall(via)
        /\ Len(bucket[msg.link]) < MaxMsgs
        /\ bucket' = r.bucket
        /\ tcall' = CallRecord("send_message", via, msg.link, DefaultOptions, r)
        /\ UNCHANGED <<flag, kemVars, maskVars>>

RecvMessagesWithOptions(via, l, opt, fail) ==
    LET r == IF via = "rc"
             THEN Rc_recv_messages_with_options(flag, bucket, l, opt, fail)
             ELSE Tsp_recv_messages_with_options(bucket, l, opt, fail)
    IN  /\ CanCall(via)
        /\ bucket' = r.bucket
        /\ tcall' = CallRecord("recv_messages_with_options", via, l, opt, r)
        /\ UNCHANGED <<flag, kemVars, maskVars>>

RecvMessageWithOptions(via, l, opt, fail) ==
    LET r == IF via = "rc"
             THEN Rc_recv_message_with_options(flag, bucket, l, opt, fail)
             ELSE Tsp_recv_message_with_options(bucket, l, opt, fail)
    IN  /\ CanCall(via)
        /\ bucket' = r.bucket
        /\ tcall' = CallRecord("recv_message_with_options", via, l, opt, r)
        /\ UNCHANGED <<flag, kemVars, maskVars>>

RecvMessages(via, l, fail) ==
    LET r == IF via = "rc" THEN Rc_recv_messages(flag, bucket, l, fail)
             ELSE Tsp_recv_messages(bucket, l, fail)
    IN  /\ CanCall(via)
        /\ bucket' = r.bucket
        /\ tcall' = CallRecord("recv_messages", via, l, DefaultOptions, r)
        /\ UNCHANGED <<flag, kemVars, maskVars>>

RecvMessage(via, l, fail) ==
    LET r == IF via = "rc" THEN Rc_recv_message(flag, bucket, l, fail)
             ELSE Tsp_recv_message(bucket, l, fail)
    IN  /\ CanCall(via)
        /\ bucket' = r.bucket
        /\ tcall' = CallRecord("recv_message", via, l, DefaultOptions, r)
        /\ UNCHANGED <<flag, kemVars, maskVars>>

\* Another holder of the Rc borrows the cell mutably.
BorrowMut ==
    /\ flag = 0
    /\ flag' = -1
    /\ UNCHANGED <<bucket, tcall, kemVars, maskVars>>

\* Another holder of the Rc borrows the cell shared.
BorrowShared ==
    /\ flag >= 0
    /\ flag < MaxShared
    /\ flag' = flag + 1
    /\ UNCHANGED <<bucket, tcall, kemVars, maskVars>>

\* A borrow of the cell ends.
Release ==
    /\ flag # 0
    /\ flag' = IF flag = -1 THEN 0 ELSE flag - 1
    /\ UNCHANGED <<bucket, tcall, kemVars, maskVars>>

\* No key, no message being wrapped, an idle transport.
InitTsp ==
    /\ pc = "idle"
    /\ prng = Zero(PRNG_KEY_SIZE)
    /\ nonce = <<>>
    /\ i = Zero(COUNTER_SIZE)
    /\ attempts = <<>>
    /\ sk = NoKeyPriv
    /\ pk = NoKeyPub
    /\ enc = NoEnc
    /\ dec = NoDec
    /\ out = Returned("none", FALSE)
    /\ MaskIdle
    /\ TspIdle

NextTsp ==
    \/ \E via \in Vias, msg \in BinaryMessages, opt \in Options, fail \in BOOLEAN :
          SendMessageWithOptions(via, msg, opt, fail)
    \/ \E via \in Vias, msg \in BinaryMessages, fail \in BOOLEAN :
          SendMessage(via, msg, fail)
    \/ \E via \in Vias, l \in TLinks, opt \in Options, fail \in BOOLEAN :
          RecvMessagesWithOptions(via, l, opt, fail)
    \/ \E via \in Vias, l \in TLinks, opt \in Options, fail \in BOOLEAN :
          RecvMessageWithOptions(via, l, opt, fail)
    \/ \E via \in Vias, l \in TLinks, fail \in BOOLEAN : RecvMessages(via, l, fail)
    \/ \E via \in Vias, l \in TLinks, fail \in BOOLEAN : RecvMessage(via, l, fail)
    \/ BorrowMut
    \/ BorrowShared
    \/ Release

SpecTsp == InitTsp /\ [][NextTsp]_vars

(***************************************************************************)
(* The claims about the key encapsulation.                                 *)
(***************************************************************************)
\* The decapsulation is that of the capsule the encapsulation produced,
\* with the private key of the pair and a sponge in the same initial state.
Matching ==
    /\ pc = "both"
    /\ enc.done
    /\ dec.done
    /\ dec.y = enc.y
    /\ dec.s0 = enc.s0

\* C1 (KEM round trip): decapsulating, with the private key of a pair from
\* gen and a sponge in the initial state of the encapsulation's sponge, the
\* capsule that encapsulating K under the public key produced succeeds and
\* writes exactly K into the output key buffer.
C1_KemRoundTrip == Matching => (dec.ok /\ dec.k = enc.k)

\* A round trip through sponges a caller brought, of a key that differs
\* from what the output buffer held.
C1_Witness ==
    /\ Matching
    /\ dec.ok
    /\ dec.k = enc.k
    /\ dec.k # dec.k0
    /\ enc.s0 # SpongosInit

\* A capsule that does not parse: every coefficient decodes to 40.
Malformed == [j \in 1..EKEY_SIZE |-> 1]

\* What the caller holds after a decapsulation: the returned value, the
\* output key buffer and the sponge.
Observed(r) == [ok |-> r.ok, k |-> r.k, s |-> r.s]

\* C5 (uniform decapsulation failure): what the caller holds after a
\* capsule was rejected at the tag comparison equals what it holds after a
\* capsule was rejected at polynomial parsing, from the same output buffer
\* and the same sponge.
C5_UniformFailure ==
    (dec.done /\ ~dec.ok /\ dec.stage = "tag") =>
        LET o == decr_sk(dec.s0, sk.sk, Malformed, dec.k0)
        IN o.stage = "parse" => Observed(o) = Observed(dec)

\* The names and the sizes of the sponge operations of a trace.
Shape(trace) == [j \in 1..Len(trace) |-> <<trace[j].op, Len(trace[j].data)>>]

\* C8 (sponge checkpoint agreement): encr_r and decr_r drive the sponge
\* with absorb of EKEY_SIZE trits, commit, encr or decr of KEY_SIZE trits
\* and squeeze of SK_SIZE - KEY_SIZE trits; on a matching pair the sponges
\* are equal after each step, with equal absorbed strings, equal
\* ciphertexts of K and equal tags, and equal at the end.
C8_CheckpointAgreement ==
    /\ enc.done =>
         Shape(enc.trace) = << <<"absorb", EKEY_SIZE>>, <<"commit", 0>>,
                               <<"encr", KEY_SIZE>>,
                               <<"squeeze", SK_SIZE - KEY_SIZE>> >>
    /\ (dec.done /\ dec.stage # "parse") =>
         Shape(dec.trace) = << <<"absorb", EKEY_SIZE>>, <<"commit", 0>>,
                               <<"decr", KEY_SIZE>>,
                               <<"squeeze", SK_SIZE - KEY_SIZE>> >>
    /\ Matching =>
         /\ Len(dec.trace) = Len(enc.trace)
         /\ \A j \in 1..Len(enc.trace) :
              /\ dec.trace[j].sp = enc.trace[j].sp
              /\ dec.trace[j].data = enc.trace[j].data
         /\ dec.s = enc.s
         /\ enc.s = enc.trace[Len(enc.trace)].sp

\* A matching pair through a sponge the callers brought, whose state moved
\* at every step.
C8_Witness ==
    /\ Matching
    /\ enc.s0 # SpongosInit
    /\ dec.s = enc.s
    /\ enc.trace[1].sp # enc.s0
    /\ enc.trace[2].sp # enc.trace[1].sp
    /\ enc.trace[3].sp # enc.trace[2].sp
    /\ enc.trace[4].sp # enc.trace[3].sp

\* f = NTT(1 + 3 sk) and f is invertible.
WellFormedPriv(key) ==
    /\ Len(key.sk) = SK_SIZE
    /\ key.f = ntt([j \in 1..N |->
                      modq((IF j = 1 THEN 1 ELSE 0) + 3 * key.sk[j])])
    /\ \A j \in 1..N : key.f[j] # 0

\* h = NTT(pk) and h is invertible.
WellFormedPub(key) ==
    /\ Len(key.pk) = PK_SIZE
    /\ key.h = ntt([j \in 1..N |-> Decode(CoeffTrits(key.pk, j))])
    /\ \A j \in 1..N : key.h[j] # 0

\* C7 (key well-formedness): the private key of gen has f = NTT(1 + 3 sk)
\* invertible; the public key of gen, from_trits, from_slice or a
\* successful validate has h = NTT(pk) invertible; and once a key exists no
\* operation changes sk, f, pk or h.
C7_KeyWellFormed ==
    /\ [](HasSk => WellFormedPriv(sk))
    /\ [](HasPk => WellFormedPub(pk))
    /\ [][HasPk => (sk' = sk /\ pk' = pk)]_vars

\* A key pair that gen found on a retry, after an encapsulation and a
\* successful decapsulation.
C7_Witness ==
    /\ pc = "both"
    /\ Len(attempts) > 1
    /\ enc.done
    /\ dec.done
    /\ dec.ok
    /\ WellFormedPriv(sk)
    /\ WellFormedPub(pk)

\* The three checks of public key parsing on the trit string inp.
SizeOk(inp) == Len(inp) = PK_SIZE
InRange(inp) ==
    \A j \in 1..N :
        /\ Decode(CoeffTrits(inp, j)) >= -((Q - 1) \div 2)
        /\ Decode(CoeffTrits(inp, j)) <= (Q - 1) \div 2
Invertible(inp) ==
    \A k \in 1..N :
        modq(SumTo([j \in 1..N |->
                      Decode(CoeffTrits(inp, j)) * Pow(Roots[k], j - 1)], N)) # 0

\* C6 (public key parsing rejects bad input): from_trits and from_slice
\* return None when the input is not PK_SIZE trits long, or decodes to a
\* coefficient out of range, or has a polynomial that is not invertible in
\* NTT form; they return Some(key) only when the three checks pass, and then
\* key.trits() is the input.
C6_ParseRejects ==
    out.op \in {"from_trits", "from_slice"} =>
        /\ out.val = (SizeOk(out.inp) /\ InRange(out.inp) /\ Invertible(out.inp))
        /\ out.val => (pc = "pkonly" /\ PublicKey_trits(pk) = out.inp)
        /\ ~out.val => pc = "none"

\* from_slice refused an input of the right size and in range whose
\* polynomial is not invertible.
C6_Witness ==
    /\ out.op = "from_slice"
    /\ ~out.val
    /\ SizeOk(out.inp)
    /\ InRange(out.inp)
    /\ ~Invertible(out.inp)

RECURSIVE CountFrom(_, _)
\* The values of the counter from v on, in increment order, n at most.
CountFrom(v, n) ==
    IF n = 0 THEN <<>>
    ELSE <<v>> \o (IF inc(v).ok THEN CountFrom(inc(v).v, n - 1) ELSE <<>>)

RECURSIVE Pow3(_)
\* 3^n.
Pow3(n) == IF n = 0 THEN 1 ELSE 3 * Pow3(n - 1)

\* The counter values of gen_r, from zero to its overflow.
Counters == CountFrom(Zero(COUNTER_SIZE), Pow3(COUNTER_SIZE))

\* The candidate of counter value v: NTT(1 + 3f) and NTT(3g), f and g from
\* the two halves of prng.gens([nonce, v]).
CandF(v) ==
    ntt(small3_add1(small_mul3(
        small_from_trits(take(gens(prng, <<nonce, v>>, 2 * SK_SIZE), SK_SIZE)))))
CandG(v) ==
    ntt(small_mul3(
        small_from_trits(drop(gens(prng, <<nonce, v>>, 2 * SK_SIZE), SK_SIZE))))
Accepted(v) == has_inv(CandF(v)) /\ has_inv(CandG(v))

\* The attempts of gen so far are the first counter values in increment
\* order; all but the last of a successful gen were rejected; gen stops at
\* the first accepted value with the keys of its randomness; sk and pk are
\* as gen created them while candidates are rejected; failure is signalled
\* only after the counter value of all +1.
GenLoopShape ==
    pc \in {"gen", "both", "failed"} =>
        /\ Len(attempts) <= Len(Counters)
        /\ Len(Counters) <= Pow3(COUNTER_SIZE)
        /\ attempts = SubSeq(Counters, 1, Len(attempts))
        /\ pc = "gen" =>
              /\ Len(attempts) < Len(Counters)
              /\ i = Counters[Len(attempts) + 1]
              /\ \A j \in 1..Len(attempts) : ~Accepted(attempts[j])
              /\ sk.sk = Zero(SK_SIZE)
              /\ pk.pk = Zero(PK_SIZE)
        /\ pc = "both" =>
              /\ Len(attempts) >= 1
              /\ \A j \in 1..(Len(attempts) - 1) : ~Accepted(attempts[j])
              /\ Accepted(attempts[Len(attempts)])
              /\ sk.sk = take(gens(prng, <<nonce, attempts[Len(attempts)]>>,
                                   2 * SK_SIZE), SK_SIZE)
              /\ sk.f = CandF(attempts[Len(attempts)])
              /\ pk.h = conv(inv(CandF(attempts[Len(attempts)])),
                             CandG(attempts[Len(attempts)]))
              /\ pk.pk = to_trits(intt(pk.h))
              /\ out = Returned("gen", TRUE)
        /\ pc = "failed" =>
              /\ attempts = Counters
              /\ attempts[Len(attempts)] = [j \in 1..COUNTER_SIZE |-> 1]
              /\ \A j \in 1..Len(attempts) : ~Accepted(attempts[j])
              /\ sk.sk = Zero(SK_SIZE)
              /\ pk.pk = Zero(PK_SIZE)
              /\ out = Returned("gen", FALSE)

\* C10 (key generation retry loop): gen tries the counter values from zero
\* in increment order, each candidate from prng.gens([nonce, i]); it stops
\* at the first value whose NTT(1 + 3f) and NTT(3g) are both invertible and
\* returns the keys of that value's randomness; a rejected candidate
\* increments i and writes neither sk nor pk; failure is signalled only
\* when the counter overflows; and the loop always ends, within
\* 3^COUNTER_SIZE attempts.
C10_GenRetryLoop ==
    /\ []GenLoopShape
    /\ (pc = "gen") ~> (pc \in {"both", "failed"})

\* gen returned a key pair on its second attempt.
C10_Witness ==
    /\ pc = "both"
    /\ Len(attempts) = 2
    /\ ~Accepted(attempts[1])
    /\ Accepted(attempts[2])
    /\ sk.sk # Zero(SK_SIZE)

\* gen_r gave up: every counter value was rejected.
GenExhausted == pc = "failed" /\ attempts = Counters

(***************************************************************************)
(* The claims about the mask command and the handoff of the sponge.        *)
(***************************************************************************)
\* The j-th call of the reader is the counterpart of the j-th call of the
\* writer: unwrap3 for wrap3, unwrapn of |src| trits for wrapn of src.
Counterpart(j) ==
    \/ rlog[j].op = "unwrap3" /\ wlog[j].op = "wrap3"
    \/ /\ rlog[j].op = "unwrapn"
       /\ wlog[j].op = "wrapn"
       /\ rlog[j].size = Len(wlog[j].val)
CounterpartsTo(j) == j <= Len(wlog) /\ \A m \in 1..j : Counterpart(m)

\* C3 (mask inverse): a reader that runs, on the buffer a sequence of
\* wrap3 and wrapn calls produced and through a copy of the writer's
\* initial sponge, the corresponding unwrap3 and unwrapn calls gets the
\* original trytes and trit strings back, moves its cursor by the amounts
\* the writer moved its own (3 for a tryte, |src| for a trit string) in the
\* same order, and has its sponge in the writer's state after every call
\* and at the end.
C3_MaskInverse ==
    /\ \A j \in 1..Len(wlog) :
          wlog[j].pos =
              (IF j = 1 THEN 0 ELSE wlog[j - 1].pos)
              + (IF wlog[j].op = "wrap3" THEN 3 ELSE Len(wlog[j].val))
    /\ \A j \in 1..Len(rlog) :
          CounterpartsTo(j) =>
              /\ rlog[j].res = "Ok"
              /\ rlog[j].val = wlog[j].val
              /\ rlog[j].pos = wlog[j].pos
              /\ rlog[j].pos - rlog[j].from = wlog[j].pos
                                                - (IF j = 1 THEN 0
                                                   ELSE wlog[j - 1].pos)
              /\ rlog[j].s = wlog[j].s
    /\ (mpc = "unwrap" /\ Len(rlog) = Len(wlog) /\ CounterpartsTo(Len(rlog))) =>
          (rs = ws /\ rpos = wpos)

\* A tryte and a string of four trits, wrapped from a sponge in the middle
\* of a block and unwrapped: the buffer is not the plain text and the
\* sponges have moved.
C3_Witness ==
    /\ mpc = "unwrap"
    /\ s0m.pos # 0
    /\ Len(wlog) = 2
    /\ Len(rlog) = 2
    /\ CounterpartsTo(2)
    /\ wlog[1].op = "wrap3"
    /\ wlog[1].val # 0
    /\ wlog[2].op = "wrapn"
    /\ Len(wlog[2].val) = 4
    /\ rlog[1].val = wlog[1].val
    /\ rlog[2].val = wlog[2].val
    /\ rbuf # put3(wlog[1].val) \o wlog[2].val
    /\ rs = ws
    /\ rs # s0m

\* C4 (unwrap end of input): unwrap3 returns Err::Eof exactly when fewer
\* than 3 trits remain in the buffer and unwrapn exactly when the
\* destination is longer than what remains; every other call succeeds and
\* consumes exactly 3, or |dst|, trits from the front of the buffer.
C4_UnwrapEof ==
    \A j \in 1..Len(rlog) :
        /\ rlog[j].res \in {"Ok", "Eof"}
        /\ rlog[j].op = "unwrap3" =>
              (rlog[j].res = "Eof" <=> Len(rbuf) - rlog[j].from < 3)
        /\ rlog[j].op = "unwrapn" =>
              (rlog[j].res = "Eof" <=> rlog[j].size > Len(rbuf) - rlog[j].from)
        /\ rlog[j].res = "Ok" =>
              rlog[j].pos = rlog[j].from
                            + (IF rlog[j].op = "unwrap3" THEN 3 ELSE rlog[j].size)
        /\ rlog[j].from = (IF j = 1 THEN 0 ELSE rlog[j - 1].pos)
        /\ j = Len(rlog) => rpos = rlog[j].pos

\* unwrap3 on the two trits that are left after a tryte was unwrapped.
C4_Witness ==
    /\ Len(rlog) = 2
    /\ rlog[1].op = "unwrap3"
    /\ rlog[1].res = "Ok"
    /\ rlog[2].op = "unwrap3"
    /\ rlog[2].res = "Eof"
    /\ Len(rbuf) - rlog[2].from = 2

\* What store.update was called with and what it left, and what was
\* returned.
HandoffShape ==
    /\ upd.called =>
          /\ upd.ops # <<>>
          /\ upd.ops[Len(upd.ops)] = "commit"
          /\ upd.ops = wops
          /\ upd.spongos.pos = 0
          /\ upd.spongos = ws
          /\ upd.rel = rel(link)
          /\ upd.ok =>
                store[rel(link)] = [some |-> TRUE, spongos |-> upd.spongos,
                                    info |-> upd.info]
          /\ ~upd.ok => ret.res = "Err"
    /\ ~upd.called =>
          /\ ret.res = "none"
          /\ \A r \in Rels : ~store[r].some
    /\ ret.res = "Ok" =>
          /\ upd.called
          /\ upd.ok
          /\ ret.message = [link |-> link, body |-> SubSeq(wbuf, 1, wpos)]

\* C9 (committed sponge at handoff): the sponge WrappedMessage::commit
\* hands to store.update is the message's sponge committed by the step
\* that makes the call, the commit being the last operation on it; the
\* store gets it under the relative link of the message; and the message is
\* returned only if the update succeeded.
C9_CommittedHandoff ==
    /\ []HandoffShape
    /\ [][(~upd.called /\ upd'.called) =>
            /\ upd'.spongos = commit(ws)
            /\ upd'.ops = Append(wops, "commit")
            /\ wops' = upd'.ops]_vars

\* A message of two wrapped items whose sponge the commit moved, stored
\* and returned.
C9_Witness ==
    /\ upd.called
    /\ upd.ok
    /\ ret.res = "Ok"
    /\ Len(wlog) = 2
    /\ upd.spongos # wlog[2].s
    /\ store[rel(link)].some

(***************************************************************************)
(* The claim about the transport.                                          *)
(***************************************************************************)
RecvOne == tcall.op \in {"recv_message_with_options", "recv_message"}
WasBorrowed == tcall.via = "rc" /\ tcall.flag # 0

\* The call reached recv_messages_with_options of the implementor once, for
\* its own link, and with its own options (the default ones for
\* recv_message).
ReachedUnderlying ==
    /\ Len(tcall.calls) = 1
    /\ tcall.calls[1].method = "recv_messages_with_options"
    /\ tcall.calls[1].link = tcall.link
    /\ tcall.calls[1].opt = tcall.opt
    /\ tcall.op = "recv_message" => tcall.opt = DefaultOptions

\* The underlying receive succeeded with exactly one message.
FoundOne ==
    /\ Len(tcall.calls) = 1
    /\ tcall.calls[1].res.ok
    /\ Len(tcall.calls[1].res.val) = 1

\* C11: recv_message_with_options and recv_message return Ok(msg) exactly
\* when the underlying recv_messages_with_options succeeds with exactly one
\* message, and msg is that message; they return an error when no message
\* is found, when more than one is found and when the underlying receive
\* fails.  Every method of Rc<RefCell<Tsp>> called while the cell is
\* borrowed returns an error (it does not panic) and makes no call of the
\* implementor; called while the cell is free it behaves as the method of
\* the implementor.
C11_SingleMessageReceive ==
    /\ (RecvOne /\ ~WasBorrowed) =>
          /\ ReachedUnderlying
          /\ tcall.res.ok <=> FoundOne
          /\ tcall.res.ok => tcall.res.val = tcall.calls[1].res.val
          /\ ~tcall.calls[1].res.ok => tcall.res = tcall.calls[1].res
          /\ (tcall.calls[1].res.ok /\ Len(tcall.calls[1].res.val) = 0) =>
                tcall.res = Err("Message not found.")
          /\ (tcall.calls[1].res.ok /\ Len(tcall.calls[1].res.val) > 1) =>
                tcall.res = Err("More than one message found.")
    /\ WasBorrowed =>
          /\ tcall.res = Err("Transport already borrowed")
          /\ tcall.calls = <<>>
    /\ (tcall.op # "none" /\ ~WasBorrowed) => Len(tcall.calls) = 1

\* A single message came back through the Rc<RefCell<Tsp>> while, under the
\* other link, more than one message is kept.
C11_Witness ==
    /\ tcall.op = "recv_message"
    /\ tcall.via = "rc"
    /\ tcall.res.ok
    /\ tcall.res.val = <<[link |-> "l1", body |-> 1]>>
    /\ Len(bucket["l2"]) > 1

\* A receive of a single message through a borrowed cell.
C11_BorrowedWitness == RecvOne /\ WasBorrowed /\ Len(bucket[tcall.link]) = 1

\* A receive of a single message that found more than one.
C11_ManyWitness ==
    RecvOne /\ tcall.res = Err("More than one message found.")

====
